---- MODULE Spec2Model ----
(***************************************************************************)
(* cantools: the signal value codec (database/signalbase.py, SignalBase)  *)
(* and the DID assembler of the CDD loader                                *)
(* (database/diagnostics/formats/cdd.py).                                 *)
(*                                                                         *)
(* Python numbers are records [n, d, f]: the exact rational n/d in lowest *)
(* terms (d > 0) and f = TRUE for a float, FALSE for an int.  Every value *)
(* drawn below is a dyadic rational of small magnitude, for which IEEE    *)
(* double arithmetic +, -, * is exact; a quotient that is not dyadic is   *)
(* held exactly here and is the nearest double in Python.                 *)
(***************************************************************************)
EXTENDS Integers, Sequences, FiniteSets, TLC

VARIABLES alive, self, warnings, pc, call, cdd

vars == <<alive, self, warnings, pc, call, cdd>>

-----------------------------------------------------------------------------
(* Bounds of the model.                                                    *)

\* the longest scale / offset / segment list handed to SignalBase
MaxSeg == 2
\* raw integer inputs are 0 .. MaxRaw
MaxRaw == 3
\* the most DATAOBJ elements in one place of a DIAGINST
MaxObjs == 2

-----------------------------------------------------------------------------
(* Python numbers.                                                         *)

Abs(x) == IF x < 0 THEN -x ELSE x

Min2(a, b) == IF a <= b THEN a ELSE b

RECURSIVE Gcd(_, _)
Gcd(a, b) == IF b = 0 THEN a ELSE Gcd(b, a % b)

\* the number n/d (d # 0) in lowest terms with a positive denominator
Rat(n, d, f) ==
    LET g == Gcd(Abs(n), Abs(d))
        s == IF d < 0 THEN -1 ELSE 1
    IN  [n |-> (s * n) \div g, d |-> (s * d) \div g, f |-> f]

\* an int literal, a float literal
I(k) == [n |-> k, d |-> 1, f |-> FALSE]
F(n, d) == Rat(n, d, TRUE)

Add(a, b) == Rat(a.n * b.d + b.n * a.d, a.d * b.d, a.f \/ b.f)
Sub(a, b) == Rat(a.n * b.d - b.n * a.d, a.d * b.d, a.f \/ b.f)
Mul(a, b) == Rat(a.n * b.n, a.d * b.d, a.f \/ b.f)
\* a / b for b # 0: true division always yields a float
TrueDiv(a, b) == Rat(a.n * b.d, a.d * b.n, TRUE)
Eq(a, b) == a.n * b.d = b.n * a.d
Le(a, b) == a.n * b.d <= b.n * a.d
Lt(a, b) == a.n * b.d < b.n * a.d

\* isinstance(x, int) or x.is_integer()
is_integer(x) == (~x.f) \/ x.d = 1
\* int(x): truncation toward zero
int(x) == I((IF x.n < 0 THEN -1 ELSE 1) * (Abs(x.n) \div x.d))
\* float(x)
float(x) == [x EXCEPT !.f = TRUE]
\* round(x): an int stays, a float goes to the nearest int, ties to even
round(x) ==
    LET q == x.n \div x.d
        r == x.n % x.d
    IN  IF 2 * r < x.d THEN I(q)
        ELSE IF 2 * r > x.d THEN I(q + 1)
        ELSE IF q % 2 = 0 THEN I(q) ELSE I(q + 1)

-----------------------------------------------------------------------------
(* Values of the union types.                                              *)

\* Union[List[float], int, float]
Scalar(x) == [list |-> FALSE, val |-> x, items |-> <<>>]
List(xs) == [list |-> TRUE, val |-> I(0), items |-> xs]

\* Optional[...]
None == [none |-> TRUE, items |-> <<>>]
Some(xs) == [none |-> FALSE, items |-> xs]

\* SignalValueType arguments: a number, a str, a NamedSignalValue
NumArg(x) == [kind |-> "num", num |-> x, text |-> ""]
StrArg(s) == [kind |-> "str", num |-> I(0), text |-> s]
NamedArg(s) == [kind |-> "named", num |-> I(0), text |-> s]

\* what a call gives back: a value or a raised exception
NoResult ==
    [kind |-> "none", exc |-> "", msg |-> "", tag |-> "none", num |-> I(0),
     label |-> "", pair |-> <<I(0), I(0)>>, intervals |-> <<>>]
OkNum(x) == [NoResult EXCEPT !.kind = "ok", !.tag = "num", !.num = x]
OkLabel(s) == [NoResult EXCEPT !.kind = "ok", !.tag = "label", !.label = s]
OkPair(o, s) == [NoResult EXCEPT !.kind = "ok", !.tag = "pair", !.pair = <<o, s>>]
OkNone == [NoResult EXCEPT !.kind = "ok"]
Raise(e, m) == [NoResult EXCEPT !.kind = "err", !.exc = e, !.msg = m]
\* the ValueError of the segment lookups, with the intervals its text lists
RaiseRange(ivs) ==
    [NoResult EXCEPT !.kind = "err", !.exc = "ValueError",
                     !.msg = "not in any of the specified intervals",
                     !.intervals = ivs]

\* all sequences over S of length 0 .. n
SeqsUpTo(S, n) == UNION {[1..k -> S] : k \in 0..n}

-----------------------------------------------------------------------------
(* SignalBase.                                                             *)

NoObject ==
    [_scale |-> Scalar(I(1)), _offset |-> Scalar(I(0)), is_float |-> FALSE,
     choices |-> None, segment_intervals_raw |-> <<>>,
     segment_intervals_scaled |-> <<>>]

\* the asserts of __init__ without the comparison of the offset list's length
InitAsserts_offset_length_unchecked(scale, offset, segment_intervals_raw) ==
    IF scale.list \/ offset.list \/ ~segment_intervals_raw.none
    THEN /\ scale.list
         /\ offset.list
         /\ ~segment_intervals_raw.none
         /\ Len(segment_intervals_raw.items) = Len(scale.items)
    ELSE TRUE

\* the asserts of __init__
InitAsserts(scale, offset, segment_intervals_raw) ==
    IF scale.list \/ offset.list \/ ~segment_intervals_raw.none
    THEN /\ scale.list
         /\ offset.list
         /\ ~segment_intervals_raw.none
         /\ Len(segment_intervals_raw.items) = Len(scale.items)
         /\ Len(segment_intervals_raw.items) = Len(offset.items)
    ELSE TRUE

\* convert = lambda value, factor, offset: value*factor + offset
convert(value, factor, offset) == Add(Mul(value, factor), offset)

\* the loop that fills segment_intervals_scaled, were it to put the lesser
\* end of each scaled interval first
ScaledIntervals_ends_ordered(segment_intervals_raw, scale, offset) ==
    LET n == Min2(Len(segment_intervals_raw), Min2(Len(scale), Len(offset)))
        a(i) == convert(segment_intervals_raw[i][1], scale[i], offset[i])
        b(i) == convert(segment_intervals_raw[i][2], scale[i], offset[i])
    IN  [i \in 1..n |-> IF Le(a(i), b(i)) THEN <<a(i), b(i)>> ELSE <<b(i), a(i)>>]

\* the loop that fills segment_intervals_scaled
ScaledIntervals(segment_intervals_raw, scale, offset) ==
    LET n == Min2(Len(segment_intervals_raw), Min2(Len(scale), Len(offset)))
    IN  [i \in 1..n |->
            <<convert(segment_intervals_raw[i][1], scale[i], offset[i]),
              convert(segment_intervals_raw[i][2], scale[i], offset[i])>>]

\* the object __init__ leaves when its asserts pass
NewSignalBase(scale, offset, choices, is_float, segment_intervals_raw) ==
    [_scale |-> scale,
     _offset |-> offset,
     is_float |-> is_float,
     choices |-> choices,
     segment_intervals_raw |->
        IF segment_intervals_raw.none THEN <<>> ELSE segment_intervals_raw.items,
     segment_intervals_scaled |->
        IF segment_intervals_raw.none THEN <<>>
        ELSE ScaledIntervals(segment_intervals_raw.items, scale.items, offset.items)]

\* str(x) of a str or a NamedSignalValue
str(x) == x.text

\* choice_string_to_number, were it to keep the last matching choice
choice_string_to_number_last_match(obj, string) ==
    IF obj.choices.none
    THEN Raise("ValueError", "has no choices")
    ELSE LET hits == {i \in 1..Len(obj.choices.items) :
                        obj.choices.items[i][2] = str(string)}
         IN  IF hits = {}
             THEN Raise("KeyError", "not found")
             ELSE OkNum(I(obj.choices.items[CHOOSE i \in hits :
                                              \A j \in hits : i >= j][1]))

\* choice_string_to_number
choice_string_to_number(obj, string) ==
    IF obj.choices.none
    THEN Raise("ValueError", "has no choices")
    ELSE LET hits == {i \in 1..Len(obj.choices.items) :
                        obj.choices.items[i][2] = str(string)}
         IN  IF hits = {}
             THEN Raise("KeyError", "not found")
             ELSE OkNum(I(obj.choices.items[CHOOSE i \in hits :
                                              \A j \in hits : i <= j][1]))

\* the index of the first zipped (interval, offset, scale) whose interval
\* holds v, 0 when the loop runs out
FirstZipped(intervals, offsets, scales, v) ==
    LET n == Min2(Len(intervals), Min2(Len(offsets), Len(scales)))
        hits == {i \in 1..n : Le(intervals[i][1], v) /\ Le(v, intervals[i][2])}
    IN  IF hits = {} THEN 0 ELSE CHOOSE i \in hits : \A j \in hits : i <= j

\* get_offset_and_scaling_for_raw
get_offset_and_scaling_for_raw(obj, raw_val) ==
    IF ~obj._offset.list
    THEN IF obj._scale.list
         THEN Raise("AssertionError", "")
         ELSE OkPair(obj._offset.val, obj._scale.val)
    ELSE IF ~obj._scale.list
    THEN Raise("AssertionError", "")
    ELSE LET i == FirstZipped(obj.segment_intervals_raw, obj._offset.items,
                              obj._scale.items, raw_val)
         IN  IF i # 0
             THEN OkPair(obj._offset.items[i], obj._scale.items[i])
             ELSE RaiseRange(obj.segment_intervals_raw)

\* get_offset_and_scaling_for_scaled
get_offset_and_scaling_for_scaled(obj, scaled_val) ==
    IF ~obj._offset.list
    THEN IF obj._scale.list
         THEN Raise("AssertionError", "")
         ELSE OkPair(obj._offset.val, obj._scale.val)
    ELSE IF ~obj._scale.list
    THEN Raise("AssertionError", "")
    ELSE LET i == FirstZipped(obj.segment_intervals_scaled, obj._offset.items,
                              obj._scale.items, scaled_val)
         IN  IF i # 0
             THEN OkPair(obj._offset.items[i], obj._scale.items[i])
             ELSE RaiseRange(obj.segment_intervals_raw)

\* the offset property
offset_getter(obj) ==
    IF obj._offset.list
    THEN Raise("TypeError", ".offset is not defined piecewise linear functions")
    ELSE OkNum(obj._offset.val)

\* the scale property
scale_getter(obj) ==
    IF obj._scale.list
    THEN Raise("TypeError", ".scale is not defined piecewise linear functions")
    ELSE OkNum(obj._scale.val)

\* the offset setter
offset_setter(obj, new_offset) == [obj EXCEPT !._offset = new_offset]

\* the scale setter
scale_setter(obj, new_scale) == [obj EXCEPT !._scale = new_scale]

\* raw_value in self.choices, self.choices[raw_value]
HasKey(choices, x) == \E i \in 1..Len(choices.items) : Eq(I(choices.items[i][1]), x)
Lookup(choices, x) ==
    choices.items[CHOOSE i \in 1..Len(choices.items) : Eq(I(choices.items[i][1]), x)][2]

\* raw_to_scaled
raw_to_scaled(obj, raw_value, decode_choices) ==
    IF decode_choices /\ ~obj.choices.none /\ obj.choices.items # <<>>
       /\ HasKey(obj.choices, raw_value)
    THEN IF raw_value.f
         THEN Raise("AssertionError", "")
         ELSE OkLabel(Lookup(obj.choices, raw_value))
    ELSE LET r == get_offset_and_scaling_for_raw(obj, raw_value)
             offset == r.pair[1]
             factor == r.pair[2]
         IN  IF r.kind = "err" THEN r
             ELSE IF Eq(factor, I(1)) /\ is_integer(offset)
             THEN OkNum(Add(raw_value, int(offset)))
             ELSE OkNum(float(Add(Mul(raw_value, factor), offset)))

\* scaled_to_raw, were it to divide without taking the offset off first
scaled_to_raw_offset_kept(obj, scaled_value) ==
    IF scaled_value.kind \in {"str", "named"}
    THEN choice_string_to_number(obj, StrArg(str(scaled_value)))
    ELSE LET r == get_offset_and_scaling_for_scaled(obj, scaled_value.num)
             factor == r.pair[2]
         IN  IF r.kind = "err" THEN r
             ELSE IF factor.n = 0
             THEN Raise("ZeroDivisionError", "")
             ELSE IF obj.is_float
             THEN OkNum(float(TrueDiv(scaled_value.num, factor)))
             ELSE OkNum(round(TrueDiv(scaled_value.num, factor)))

\* scaled_to_raw
scaled_to_raw(obj, scaled_value) ==
    IF scaled_value.kind \in {"str", "named"}
    THEN choice_string_to_number(obj, StrArg(str(scaled_value)))
    ELSE LET r == get_offset_and_scaling_for_scaled(obj, scaled_value.num)
             offset == r.pair[1]
             factor == r.pair[2]
             fast == Eq(factor, I(1)) /\ is_integer(offset)
             result == IF fast
                       THEN Sub(scaled_value.num, int(offset))
                       ELSE TrueDiv(Sub(scaled_value.num, offset), factor)
         IN  IF r.kind = "err" THEN r
             ELSE IF ~fast /\ factor.n = 0
             THEN Raise("ZeroDivisionError", "")
             ELSE IF obj.is_float
             THEN OkNum(float(result))
             ELSE OkNum(round(result))

-----------------------------------------------------------------------------
(* The arguments the callers draw.                                         *)

ScalarScales == {I(-1), I(0), I(1), I(2), F(1, 2)}
ScalarOffsets == {I(0), I(1), F(1, 2)}
SegScales == {I(-1), I(1), I(2)}
SegOffsets == {I(0), I(1)}
Intervals == {<<I(0), I(1)>>, <<I(1), I(2)>>, <<I(2), I(2)>>}

ScaleArgs ==
    {Scalar(x) : x \in ScalarScales} \cup {List(s) : s \in SeqsUpTo(SegScales, MaxSeg)}
OffsetArgs ==
    {Scalar(x) : x \in ScalarOffsets} \cup {List(s) : s \in SeqsUpTo(SegOffsets, MaxSeg)}
SegmentArgs == {None} \cup {Some(s) : s \in SeqsUpTo(Intervals, MaxSeg)}
ChoiceArgs ==
    {None, Some(<<>>), Some(<<<<0, "OFF">>, <<1, "ON">>>>),
     Some(<<<<0, "ON">>, <<1, "ON">>>>)}

RawArgs == {I(k) : k \in 0..MaxRaw} \cup {F(1, 1), F(1, 2)}
ScaledArgs == {I(k) : k \in (-2)..(MaxRaw + 1)} \cup {F(1, 2), F(3, 2)}
Labels == {"ON", "UNKNOWN"}
LabelArgs == {StrArg(s) : s \in Labels} \cup {NamedArg(s) : s \in Labels}

\* the setters' new values
NewScaleArgs == {Scalar(I(2)), List(<<I(2)>>), List(<<I(2), I(1)>>)}
NewOffsetArgs == {Scalar(I(1)), List(<<I(1)>>), List(<<I(1), I(0)>>)}

-----------------------------------------------------------------------------
(* The caller: idle, then one call, then its result taken.                 *)

ShapeOf(x) == IF x.list THEN Len(x.items) ELSE -1
ShapeOfOpt(x) == IF x.none THEN -1 ELSE Len(x.items)

NoOrigin == [has |-> FALSE, raw |-> I(0)]

NoCall ==
    [op |-> "", arg |-> NumArg(I(0)), decode |-> FALSE, shape |-> <<0, 0, 0>>,
     res |-> NoResult, origin |-> NoOrigin, before |-> NoObject]

Called(op, arg, decode, res) ==
    [NoCall EXCEPT !.op = op, !.arg = arg, !.decode = decode, !.res = res,
                   !.before = self]

-----------------------------------------------------------------------------
(* cdd.py: the DID assembler.                                              *)

\* a DataType of the catalog _load_data_types builds
DataType(bit_length, byte_order, factor, offset, minimum, maximum) ==
    [bit_length |-> bit_length, byte_order |-> byte_order, factor |-> factor,
     offset |-> offset, minimum |-> minimum, maximum |-> maximum]

\* data_types: a type id gives one DataType or, for a piecewise type, a list
TypeIds == {"u8le", "u4be", "pw12le"}
data_types ==
    [id \in TypeIds |->
        CASE id = "u8le" ->
               [list |-> FALSE,
                items |-> <<DataType(8, "little_endian", 1, 0, -1, -1)>>]
          [] id = "u4be" ->
               [list |-> FALSE,
                items |-> <<DataType(4, "big_endian", 2, 1, -1, -1)>>]
          [] OTHER ->
               [list |-> TRUE,
                items |-> <<DataType(12, "little_endian", 1, 0, 0, 10),
                            DataType(12, "little_endian", 2, 5, 10, 20)>>]]

\* a DATAOBJ element: its QUAL text and its dtref attribute
DataObj(qual, dtref) == [QUAL |-> qual, dtref |-> dtref]

\* did_data_lib: the DID elements of ECUDOC/DIDS by id, each with its
\* STRUCTURE/DATAOBJ children
did_data_lib_ids == {"lib1", "lib2"}
did_data_lib ==
    [id \in did_data_lib_ids |->
        IF id = "lib1"
        THEN <<DataObj("lib1.a", "u4be"), DataObj("lib1.b", "u8le")>>
        ELSE <<DataObj("lib2.a", "pw12le")>>]

\* cdd_offset_to_dbc_start_bit (cantools/database/utils.py)
cdd_offset_to_dbc_start_bit(cdd_offset, bit_length, byte_order) ==
    IF byte_order = "big_endian"
    THEN 8 * (cdd_offset \div 8) + Min2(7, (cdd_offset % 8) + bit_length - 1)
    ELSE cdd_offset

\* Data(...): the record the constructor keeps
Data(name, start, length, byte_order, scale, offset, minimum, maximum) ==
    [name |-> name, start |-> start, length |-> length, byte_order |-> byte_order,
     scale |-> scale, offset |-> offset, minimum |-> minimum, maximum |-> maximum]

\* Did(...)
Did(identifier, name, length, datas) ==
    [identifier |-> identifier, name |-> name, length |-> length, datas |-> datas]

NoDid == Did(-1, "", -1, <<>>)

\* _load_data_element: the Data of one DATAOBJ, or the KeyError of an
\* unknown dtref
_load_data_element(data, bit_offset) ==
    IF data.dtref \notin DOMAIN data_types
    THEN [ok |-> FALSE, data |-> Data(data.QUAL, 0, 0, "", <<>>, <<>>, <<>>, <<>>)]
    ELSE LET types == data_types[data.dtref].items
             data_type == types[1]
             dbc_start_bitnum ==
                 cdd_offset_to_dbc_start_bit(bit_offset, data_type.bit_length,
                                             data_type.byte_order)
         IN  [ok |-> TRUE,
              data |-> Data(data.QUAL, dbc_start_bitnum, data_type.bit_length,
                            data_type.byte_order,
                            [i \in 1..Len(types) |-> types[i].factor],
                            [i \in 1..Len(types) |-> types[i].offset],
                            [i \in 1..Len(types) |-> types[i].minimum],
                            [i \in 1..Len(types) |-> types[i].maximum])]

RECURSIVE Flatten(_)
Flatten(ss) == IF ss = <<>> THEN <<>> ELSE Head(ss) \o Flatten(Tail(ss))

\* the data_objs _load_did_element collects: the DATAOBJ of SIMPLECOMPCONT,
\* those of SIMPLECOMPCONT/UNION/STRUCT, then those of every DIDDATAREF
\* whose didRef is in did_data_lib
CollectDataObjs(did) ==
    did.dataobj \o did.union_struct_dataobj
    \o Flatten([i \in 1..Len(did.diddataref) |->
                  IF did.diddataref[i] \in DOMAIN did_data_lib
                  THEN did_data_lib[did.diddataref[i]]
                  ELSE <<>>])

Digits == <<"0", "1", "2", "3", "4", "5", "6", "7", "8", "9">>
DigitValue(c) == (CHOOSE i \in 1..10 : Digits[i] = c) - 1
IsDecimal(str_) ==
    /\ str_ # <<>>
    /\ \A i \in 1..Len(str_) : \E j \in 1..10 : Digits[j] = str_[i]
RECURSIVE ParseDecimal(_)
ParseDecimal(str_) ==
    IF str_ = <<>> THEN 0
    ELSE 10 * ParseDecimal(SubSeq(str_, 1, Len(str_) - 1)) + DigitValue(str_[Len(str_)])

\* the DIAGINST elements the loader is given
StaticValues ==
    {<<"4", "6", "6", "0">>, <<"6", "1">>, <<"0", "x", "1", "2", "3", "4">>}
DtRefs == TypeIds \cup {"absent"}
DidRefs == did_data_lib_ids \cup {"gone"}
Named(prefix, refs) == [i \in 1..Len(refs) |-> DataObj(<<prefix, i>>, refs[i])]
DiagInsts ==
    {[QUAL |-> "inst", STATICVALUE |-> v, dataobj |-> Named("obj", d),
      union_struct_dataobj |-> Named("union", u), diddataref |-> r] :
        v \in StaticValues, d \in SeqsUpTo(DtRefs, MaxObjs),
        u \in SeqsUpTo(TypeIds, 1), r \in SeqsUpTo(DidRefs, MaxObjs)}

NoCdd ==
    [pc |-> "none", did |-> CHOOSE d \in DiagInsts : TRUE, data_objs |-> <<>>,
     offset |-> 0, datas |-> <<>>, result |-> NoDid, exc |-> ""]

\* _load_did_element, lines 206-216: collect the data_objs
LoadDidCollect ==
    /\ cdd.pc = "start"
    /\ cdd' = [cdd EXCEPT !.pc = "loop", !.offset = 0, !.datas = <<>>,
                          !.data_objs = CollectDataObjs(cdd.did)]
    /\ UNCHANGED <<alive, self, warnings, pc, call>>

\* the loop turn, were it to advance the offset by whole bytes
LoadDidStep_advances_by_bytes ==
    /\ cdd.pc = "loop"
    /\ cdd.data_objs # <<>>
    /\ LET r == _load_data_element(Head(cdd.data_objs), cdd.offset)
       IN  IF ~r.ok
           THEN cdd' = [cdd EXCEPT !.pc = "raised", !.exc = "KeyError"]
           ELSE cdd' = [cdd EXCEPT !.datas = Append(@, r.data),
                                   !.offset = @ + 8 * ((r.data.length + 7) \div 8),
                                   !.data_objs = Tail(@)]
    /\ UNCHANGED <<alive, self, warnings, pc, call>>

\* _load_did_element, lines 218-228: one turn of the loop over data_objs
LoadDidStep ==
    /\ cdd.pc = "loop"
    /\ cdd.data_objs # <<>>
    /\ LET r == _load_data_element(Head(cdd.data_objs), cdd.offset)
       IN  IF ~r.ok
           THEN cdd' = [cdd EXCEPT !.pc = "raised", !.exc = "KeyError"]
           ELSE cdd' = [cdd EXCEPT !.datas = Append(@, r.data),
                                   !.offset = @ + r.data.length,
                                   !.data_objs = Tail(@)]
    /\ UNCHANGED <<alive, self, warnings, pc, call>>

\* _load_did_element, lines 230-237: the Did
LoadDidFinish ==
    /\ cdd.pc = "loop"
    /\ cdd.data_objs = <<>>
    /\ IF ~IsDecimal(cdd.did.STATICVALUE)
       THEN cdd' = [cdd EXCEPT !.pc = "raised", !.exc = "ValueError"]
       ELSE cdd' = [cdd EXCEPT !.pc = "done",
                       !.result = Did(ParseDecimal(cdd.did.STATICVALUE),
                                      cdd.did.QUAL,
                                      (cdd.offset + 7) \div 8,
                                      cdd.datas)]
    /\ UNCHANGED <<alive, self, warnings, pc, call>>

Init ==
    /\ alive = FALSE
    /\ self = NoObject
    /\ warnings = <<>>
    /\ pc = "idle"
    /\ call = NoCall
    /\ cdd = NoCdd

\* SignalBase(...)
Construct ==
    /\ pc = "idle"
    /\ ~alive
    /\ \E scale \in ScaleArgs, offset \in OffsetArgs, seg \in SegmentArgs,
          choices \in ChoiceArgs, is_float \in BOOLEAN :
          LET shape == <<ShapeOf(scale), ShapeOf(offset), ShapeOfOpt(seg)>>
          IN  IF InitAsserts(scale, offset, seg)
              THEN /\ alive' = TRUE
                   /\ self' = NewSignalBase(scale, offset, choices, is_float, seg)
                   /\ call' = [NoCall EXCEPT !.op = "__init__", !.shape = shape,
                                             !.res = OkNone]
              ELSE /\ alive' = FALSE
                   /\ self' = self
                   /\ call' = [NoCall EXCEPT !.op = "__init__", !.shape = shape,
                                             !.res = Raise("AssertionError", "")]
    /\ pc' = "done"
    /\ UNCHANGED <<warnings, cdd>>

ChoiceStringToNumber ==
    /\ pc = "idle" /\ alive
    /\ \E string \in LabelArgs :
          call' = Called("choice_string_to_number", string, FALSE,
                         choice_string_to_number(self, string))
    /\ pc' = "done"
    /\ UNCHANGED <<alive, self, warnings, cdd>>

GetOffsetAndScalingForRaw ==
    /\ pc = "idle" /\ alive
    /\ \E raw_val \in RawArgs :
          call' = Called("get_offset_and_scaling_for_raw", NumArg(raw_val), FALSE,
                         get_offset_and_scaling_for_raw(self, raw_val))
    /\ pc' = "done"
    /\ UNCHANGED <<alive, self, warnings, cdd>>

GetOffsetAndScalingForScaled ==
    /\ pc = "idle" /\ alive
    /\ \E scaled_val \in ScaledArgs :
          call' = Called("get_offset_and_scaling_for_scaled", NumArg(scaled_val), FALSE,
                         get_offset_and_scaling_for_scaled(self, scaled_val))
    /\ pc' = "done"
    /\ UNCHANGED <<alive, self, warnings, cdd>>

GetOffset ==
    /\ pc = "idle" /\ alive
    /\ call' = Called("offset", NumArg(I(0)), FALSE, offset_getter(self))
    /\ pc' = "done"
    /\ UNCHANGED <<alive, self, warnings, cdd>>

GetScale ==
    /\ pc = "idle" /\ alive
    /\ call' = Called("scale", NumArg(I(0)), FALSE, scale_getter(self))
    /\ pc' = "done"
    /\ UNCHANGED <<alive, self, warnings, cdd>>

SetOffset ==
    /\ pc = "idle" /\ alive
    /\ \E new_offset \in NewOffsetArgs :
          /\ self' = offset_setter(self, new_offset)
          /\ call' = Called("offset.setter", NumArg(I(0)), FALSE, OkNone)
    /\ pc' = "done"
    /\ UNCHANGED <<alive, warnings, cdd>>

SetScale ==
    /\ pc = "idle" /\ alive
    /\ \E new_scale \in NewScaleArgs :
          /\ self' = scale_setter(self, new_scale)
          /\ call' = Called("scale.setter", NumArg(I(0)), FALSE, OkNone)
    /\ pc' = "done"
    /\ UNCHANGED <<alive, warnings, cdd>>

RawToScaled ==
    /\ pc = "idle" /\ alive
    /\ \E raw_value \in RawArgs, decode_choices \in BOOLEAN :
          call' = Called("raw_to_scaled", NumArg(raw_value), decode_choices,
                         raw_to_scaled(self, raw_value, decode_choices))
    /\ pc' = "done"
    /\ UNCHANGED <<alive, self, warnings, cdd>>

\* scaled_to_raw of a drawn value, or of what raw_to_scaled has just returned
ScaledToRaw ==
    /\ alive
    /\ \/ /\ pc = "idle"
          /\ \E scaled_value \in {NumArg(x) : x \in ScaledArgs} \cup LabelArgs :
                call' = Called("scaled_to_raw", scaled_value, FALSE,
                               scaled_to_raw(self, scaled_value))
       \/ /\ pc = "done"
          /\ call.op = "raw_to_scaled"
          /\ ~call.decode
          /\ call.res.kind = "ok"
          /\ call.res.tag = "num"
          /\ call' = [Called("scaled_to_raw", NumArg(call.res.num), FALSE,
                             scaled_to_raw(self, NumArg(call.res.num)))
                      EXCEPT !.origin = [has |-> TRUE, raw |-> call.arg.num]]
    /\ pc' = "done"
    /\ UNCHANGED <<alive, self, warnings, cdd>>

\* the caller takes the result (or catches the exception)
Return ==
    /\ pc = "done"
    /\ pc' = "idle"
    /\ call' = NoCall
    /\ UNCHANGED <<alive, self, warnings, cdd>>

Next ==
    \/ Construct
    \/ ChoiceStringToNumber
    \/ GetOffsetAndScalingForRaw
    \/ GetOffsetAndScalingForScaled
    \/ GetOffset
    \/ GetScale
    \/ SetOffset
    \/ SetScale
    \/ RawToScaled
    \/ ScaledToRaw
    \/ Return

Spec == Init /\ [][Next]_vars

\* the codec as constructed: no setter is ever called
AsConstructedNext ==
    \/ Construct
    \/ ChoiceStringToNumber
    \/ GetOffsetAndScalingForRaw
    \/ GetOffsetAndScalingForScaled
    \/ GetOffset
    \/ GetScale
    \/ RawToScaled
    \/ ScaledToRaw
    \/ Return

SpecAsConstructed == Init /\ [][AsConstructedNext]_vars

CddInit ==
    /\ alive = FALSE
    /\ self = NoObject
    /\ warnings = <<>>
    /\ pc = "idle"
    /\ call = NoCall
    /\ \E did \in DiagInsts : cdd = [NoCdd EXCEPT !.pc = "start", !.did = did]

CddNext ==
    \/ LoadDidCollect
    \/ LoadDidStep
    \/ LoadDidFinish

SpecCdd == CddInit /\ [][CddNext]_vars

-----------------------------------------------------------------------------
(* Properties.                                                             *)

\* v lies in the closed interval iv
Holds(iv, v) == Le(iv[1], v) /\ Le(v, iv[2])

\* scale and offset are both scalars
ScalarCodec(obj) == ~obj._scale.list /\ ~obj._offset.list

\* scale, offset and both boundary lists are sequences of one length
PiecewiseCodec(obj) ==
    /\ obj._scale.list
    /\ obj._offset.list
    /\ Len(obj._scale.items) = Len(obj.segment_intervals_raw)
    /\ Len(obj._offset.items) = Len(obj.segment_intervals_raw)
    /\ Len(obj.segment_intervals_scaled) = Len(obj.segment_intervals_raw)

IsRangeError(res) ==
    /\ res.kind = "err"
    /\ res.exc = "ValueError"
    /\ res.msg = "not in any of the specified intervals"

\* C1: on a piecewise codec get_offset_and_scaling_for_raw(v) and
\* get_offset_and_scaling_for_scaled(v) return the (offset, scale) of the
\* first segment, in declaration order, whose closed raw (respectively
\* scaled) interval holds v; when no segment holds v the call raises the
\* range error, which lists the intervals that were candidates.
C1_FirstSegmentOrRangeError ==
    (/\ pc = "done"
     /\ call.op \in {"get_offset_and_scaling_for_raw",
                     "get_offset_and_scaling_for_scaled"}
     /\ PiecewiseCodec(call.before))
    => LET obj == call.before
           v == call.arg.num
           ivs == IF call.op = "get_offset_and_scaling_for_raw"
                  THEN obj.segment_intervals_raw
                  ELSE obj.segment_intervals_scaled
       IN  \/ \E i \in 1..Len(ivs) :
                 /\ Holds(ivs[i], v)
                 /\ \A j \in 1..(i - 1) : ~Holds(ivs[j], v)
                 /\ call.res = OkPair(obj._offset.items[i], obj._scale.items[i])
           \/ /\ \A i \in 1..Len(ivs) : ~Holds(ivs[i], v)
              /\ IsRangeError(call.res)
              /\ call.res.intervals = ivs

\* The part of C1 the code keeps: the first holding segment is returned and
\* a value in no segment raises the range error (whatever it lists).
FirstSegmentOrSomeRangeError ==
    (/\ pc = "done"
     /\ call.op \in {"get_offset_and_scaling_for_raw",
                     "get_offset_and_scaling_for_scaled"}
     /\ PiecewiseCodec(call.before))
    => LET obj == call.before
           v == call.arg.num
           ivs == IF call.op = "get_offset_and_scaling_for_raw"
                  THEN obj.segment_intervals_raw
                  ELSE obj.segment_intervals_scaled
       IN  \/ \E i \in 1..Len(ivs) :
                 /\ Holds(ivs[i], v)
                 /\ \A j \in 1..(i - 1) : ~Holds(ivs[j], v)
                 /\ call.res = OkPair(obj._offset.items[i], obj._scale.items[i])
           \/ /\ \A i \in 1..Len(ivs) : ~Holds(ivs[i], v)
              /\ IsRangeError(call.res)
              /\ call.res.intervals = obj.segment_intervals_raw

\* C2: raw_to_scaled(raw, decode_choices) returns the mapped label when
\* decode_choices is true and raw is a key of the choice mapping, without
\* any segment lookup; in every other case it returns the number
\* raw*scale + offset for the (offset, scale) resolved for raw (the lookup's
\* error when there is none), which is raw itself when offset is 0 and
\* scale is 1.
C2_LabelOrScaledNumber ==
    (pc = "done" /\ call.op = "raw_to_scaled")
    => LET obj == call.before
           raw == call.arg.num
           items == obj.choices.items
           keys == {i \in 1..Len(items) : Eq(I(items[i][1]), raw)}
           r == get_offset_and_scaling_for_raw(obj, raw)
           offset == r.pair[1]
           scale == r.pair[2]
       IN  IF call.decode /\ ~obj.choices.none /\ keys # {}
           THEN \E i \in keys : call.res = OkLabel(items[i][2])
           ELSE IF r.kind = "ok"
           THEN /\ call.res.kind = "ok"
                /\ call.res.tag = "num"
                /\ Eq(call.res.num, Add(Mul(raw, scale), offset))
                /\ (offset.n = 0 /\ Eq(scale, I(1))) => call.res.num = raw
           ELSE call.res = r

\* |x| < 1
AbsLtOne(x) == Abs(x.n) < x.d

\* C3 as stated: for every scalar codec scaled_to_raw(raw_to_scaled(raw,
\* false)) is within 1 of raw when is_float is false and is raw when
\* is_float is true; with scale 1 and offset 0, raw_to_scaled(x, false) is x
\* and scaled_to_raw(x) is round(x).
C3_RoundTripEveryScalarCodec ==
    /\ (/\ pc = "done"
        /\ call.op = "scaled_to_raw"
        /\ call.origin.has
        /\ ScalarCodec(call.before))
       => /\ call.res.kind = "ok"
          /\ IF call.before.is_float
             THEN Eq(call.res.num, call.origin.raw)
             ELSE AbsLtOne(Sub(call.res.num, call.origin.raw))
    /\ (/\ pc = "done"
        /\ ScalarCodec(call.before)
        /\ Eq(call.before._scale.val, I(1))
        /\ call.before._offset.val.n = 0)
       => /\ (call.op = "raw_to_scaled" /\ ~call.decode)
             => call.res = OkNum(call.arg.num)
          /\ (call.op = "scaled_to_raw" /\ call.arg.kind = "num")
             => /\ call.res.kind = "ok"
                /\ Eq(call.res.num, round(call.arg.num))

\* C3 amended: for every scalar codec whose scale is not 0 (and values whose
\* floating-point arithmetic is exact) scaled_to_raw(raw_to_scaled(raw,
\* false)) is within 1 of raw when is_float is false and is raw when
\* is_float is true; with scale 1 and offset 0, raw_to_scaled(x, false) is
\* x, and scaled_to_raw(x) is round(x) when is_float is false and float(x)
\* when is_float is true.
C3_RoundTripNonzeroScale ==
    /\ (/\ pc = "done"
        /\ call.op = "scaled_to_raw"
        /\ call.origin.has
        /\ ScalarCodec(call.before)
        /\ call.before._scale.val.n # 0)
       => /\ call.res.kind = "ok"
          /\ call.res.tag = "num"
          /\ IF call.before.is_float
             THEN Eq(call.res.num, call.origin.raw)
             ELSE AbsLtOne(Sub(call.res.num, call.origin.raw))
    /\ (/\ pc = "done"
        /\ ScalarCodec(call.before)
        /\ Eq(call.before._scale.val, I(1))
        /\ call.before._offset.val.n = 0)
       => /\ (call.op = "raw_to_scaled" /\ ~call.decode)
             => call.res = OkNum(call.arg.num)
          /\ (call.op = "scaled_to_raw" /\ call.arg.kind = "num")
             => /\ call.res.kind = "ok"
                /\ IF call.before.is_float
                   THEN call.res.num = float(call.arg.num)
                   ELSE /\ ~call.res.num.f
                        /\ call.res.num.d = 1
                        /\ LET twice == Sub(Mul(I(2), call.arg.num),
                                            Mul(I(2), call.res.num))
                           IN  \/ Abs(twice.n) < twice.d
                               \/ /\ Abs(twice.n) = twice.d
                                  /\ call.res.num.n % 2 = 0

\* a round trip through a scalar codec of scale 2 in which rounding moved
\* the value
C3_Witness ==
    /\ pc = "done"
    /\ call.op = "scaled_to_raw"
    /\ call.origin.has
    /\ ScalarCodec(call.before)
    /\ Eq(call.before._scale.val, I(2))
    /\ ~call.before.is_float
    /\ call.res.kind = "ok"
    /\ ~Eq(call.res.num, call.origin.raw)

\* C4: SignalBase(...) succeeds exactly when scale, offset and
\* segment_intervals_raw are all scalar/absent or all lists of one length;
\* every other combination raises AssertionError and leaves no codec.
C4_ConstructionInvariant ==
    (pc = "done" /\ call.op = "__init__")
    => LET nscale == call.shape[1]
           noffset == call.shape[2]
           nsegments == call.shape[3]
           consistent ==
               \/ nscale = -1 /\ noffset = -1 /\ nsegments = -1
               \/ nscale >= 0 /\ nscale = noffset /\ noffset = nsegments
       IN  IF consistent
           THEN call.res.kind = "ok" /\ alive
           ELSE /\ call.res.kind = "err"
                /\ call.res.exc = "AssertionError"
                /\ ~alive
                /\ self = NoObject

\* three lists, of which two differ in length, were refused
C4_Witness ==
    /\ pc = "done"
    /\ call.op = "__init__"
    /\ call.shape[1] >= 1
    /\ call.shape[2] = call.shape[1]
    /\ call.shape[3] >= 1
    /\ call.shape[3] # call.shape[1]
    /\ call.res.kind = "err"
    /\ ~alive

\* C5: reading the offset and scale properties always succeeds: it returns
\* the stored scalar, or the first element of the stored list.
C5_ScalarViewAlwaysSucceeds ==
    (pc = "done" /\ call.op \in {"offset", "scale"})
    => LET u == IF call.op = "offset" THEN call.before._offset
                ELSE call.before._scale
       IN  (~u.list \/ u.items # <<>>)
           => /\ call.res.kind = "ok"
              /\ call.res.tag = "num"
              /\ call.res.num = (IF u.list THEN u.items[1] ELSE u.val)

\* C6: in every state of a piecewise codec segment_intervals_scaled[i] is
\* (lo_i*scale[i] + offset[i], hi_i*scale[i] + offset[i]) for the current
\* scale and offset lists.
C6_ScaledBoundariesFollowSetters ==
    (/\ alive
     /\ self._scale.list
     /\ self._offset.list
     /\ Len(self._scale.items) = Len(self.segment_intervals_raw)
     /\ Len(self._offset.items) = Len(self.segment_intervals_raw))
    => /\ Len(self.segment_intervals_scaled) = Len(self.segment_intervals_raw)
       /\ \A i \in 1..Len(self.segment_intervals_raw) :
             self.segment_intervals_scaled[i] =
                <<Add(Mul(self.segment_intervals_raw[i][1], self._scale.items[i]),
                      self._offset.items[i]),
                  Add(Mul(self.segment_intervals_raw[i][2], self._scale.items[i]),
                      self._offset.items[i])>>

\* the segments whose scaled lower bound is at or below the greatest scaled
\* upper bound of the segments before them
OverlappingSegments(obj) ==
    {i \in 2..Len(obj.segment_intervals_scaled) :
        \E j \in 1..(i - 1) :
            Le(obj.segment_intervals_scaled[i][1], obj.segment_intervals_scaled[j][2])}

\* C7: constructing a piecewise codec emits one warning for each segment
\* that overlaps its predecessors in scaled space, none when no segment
\* does, and returns the codec either way.
C7_OverlapWarning ==
    (pc = "done" /\ call.op = "__init__" /\ call.res.kind = "ok" /\ self._scale.list)
    => /\ alive
       /\ Len(warnings) = Cardinality(OverlappingSegments(self))

\* C8: the Did of one DIAGINST has the fields of its DATAOBJ elements in
\* document order (direct, then union/struct, then those of each resolved
\* DIDDATAREF); field k starts at the normalised running offset
\* l_1 + ... + l_(k-1) and the Did's length is ceil((l_1 + ... + l_n)/8)
\* bytes; two 8-bit little-endian fields with STATICVALUE 4660 give
\* identifier 4660, length 2 and starts 0 and 8.
C8_DidLayout ==
    (cdd.pc = "done")
    => LET did == cdd.did
           present == SelectSeq(did.diddataref, LAMBDA r : r \in did_data_lib_ids)
           objs == did.dataobj \o did.union_struct_dataobj
                   \o Flatten([i \in 1..Len(present) |-> did_data_lib[present[i]]])
           n == Len(objs)
           type(k) == data_types[objs[k].dtref].items[1]
           bits[k \in 0..n] == IF k = 0 THEN 0 ELSE bits[k - 1] + type(k).bit_length
           datas == cdd.result.datas
       IN  /\ Len(datas) = n
           /\ \A k \in 1..n :
                 /\ datas[k].name = objs[k].QUAL
                 /\ datas[k].length = type(k).bit_length
                 /\ datas[k].start =
                       cdd_offset_to_dbc_start_bit(bits[k - 1], type(k).bit_length,
                                                   type(k).byte_order)
           /\ 8 * cdd.result.length >= bits[n]
           /\ 8 * cdd.result.length < bits[n] + 8
           /\ (/\ did.STATICVALUE = <<"4", "6", "6", "0">>
               /\ n = 2
               /\ \A k \in 1..n : objs[k].dtref = "u8le")
              => /\ cdd.result.identifier = 4660
                 /\ cdd.result.length = 2
                 /\ datas[1].start = 0
                 /\ datas[2].start = 8

\* a Did assembled from direct, union and referenced fields, one reference
\* being absent from did_data_lib
C8_Witness ==
    /\ cdd.pc = "done"
    /\ Len(cdd.did.dataobj) >= 2
    /\ cdd.did.union_struct_dataobj # <<>>
    /\ \E i \in 1..Len(cdd.did.diddataref) : cdd.did.diddataref[i] = "gone"
    /\ \E i \in 1..Len(cdd.did.diddataref) : cdd.did.diddataref[i] = "lib1"
    /\ Len(cdd.result.datas) = Len(cdd.did.dataobj) + 3
    /\ cdd.result.length > 2

\* C9: choice_string_to_number(label), and scaled_to_raw of a str or named
\* value, returns the key of the first choice whose string equals the label;
\* without a choice mapping it raises the no-choices ValueError, with a
\* mapping that lacks the label the KeyError; the codec is left as it was.
C9_ChoiceLookup ==
    (/\ pc = "done"
     /\ \/ call.op = "choice_string_to_number"
        \/ call.op = "scaled_to_raw" /\ call.arg.kind \in {"str", "named"})
    => LET obj == call.before
           label == call.arg.text
           items == obj.choices.items
       IN  /\ self = obj
           /\ IF obj.choices.none
              THEN /\ call.res.kind = "err"
                   /\ call.res.exc = "ValueError"
                   /\ call.res.msg = "has no choices"
              ELSE IF \E i \in 1..Len(items) : items[i][2] = label
              THEN \E i \in 1..Len(items) :
                      /\ items[i][2] = label
                      /\ \A j \in 1..(i - 1) : items[j][2] # label
                      /\ call.res = OkNum(I(items[i][1]))
              ELSE /\ call.res.kind = "err"
                   /\ call.res.exc = "KeyError"

\* scaled_to_raw of a named value whose label two choices carry returned the
\* key of the first
C9_Witness ==
    /\ pc = "done"
    /\ call.op = "scaled_to_raw"
    /\ call.arg.kind = "named"
    /\ Len(call.before.choices.items) = 2
    /\ call.before.choices.items[1][2] = call.arg.text
    /\ call.before.choices.items[2][2] = call.arg.text
    /\ call.res = OkNum(I(call.before.choices.items[1][1]))

\* segment i has lo < hi and a negative scale
Reversed(obj, i) ==
    /\ Lt(obj.segment_intervals_raw[i][1], obj.segment_intervals_raw[i][2])
    /\ obj._scale.items[i].n < 0

\* C10: the constructor stores each scaled interval as (lo*scale + offset,
\* hi*scale + offset) without reordering its ends, so a segment with lo < hi
\* and a negative scale has start > end and is never selected by the scaled
\* lookup; for a raw value lying only in such a segment the round trip
\* raises the range error unless another segment's scaled interval holds the
\* scaled value; with all scales positive and disjoint scaled intervals the
\* round trip selects the same segment both ways.
C10_ReversedSegmentsAreUnreachable ==
    /\ (alive /\ self._scale.list)
       => /\ Len(self.segment_intervals_scaled) = Len(self.segment_intervals_raw)
          /\ \A i \in 1..Len(self.segment_intervals_raw) :
                /\ self.segment_intervals_scaled[i] =
                      <<Add(Mul(self.segment_intervals_raw[i][1], self._scale.items[i]),
                            self._offset.items[i]),
                        Add(Mul(self.segment_intervals_raw[i][2], self._scale.items[i]),
                            self._offset.items[i])>>
                /\ Reversed(self, i)
                   => Lt(self.segment_intervals_scaled[i][2],
                         self.segment_intervals_scaled[i][1])
    /\ (/\ pc = "done"
        /\ call.op = "get_offset_and_scaling_for_scaled"
        /\ call.before._scale.list
        /\ call.res.kind = "ok")
       => \E j \in 1..Len(call.before.segment_intervals_scaled) :
             /\ ~Reversed(call.before, j)
             /\ Holds(call.before.segment_intervals_scaled[j], call.arg.num)
             /\ call.res = OkPair(call.before._offset.items[j],
                                  call.before._scale.items[j])
    /\ (/\ pc = "done"
        /\ call.op = "scaled_to_raw"
        /\ call.origin.has
        /\ call.before._scale.list)
       => LET obj == call.before
              v == call.origin.raw
              sv == call.arg.num
              n == Len(obj.segment_intervals_raw)
              inRaw == {i \in 1..n : Holds(obj.segment_intervals_raw[i], v)}
              inScaled == {i \in 1..n : Holds(obj.segment_intervals_scaled[i], sv)}
              disjoint ==
                  \A i, j \in 1..n :
                     i # j => \/ Lt(obj.segment_intervals_scaled[i][2],
                                    obj.segment_intervals_scaled[j][1])
                              \/ Lt(obj.segment_intervals_scaled[j][2],
                                    obj.segment_intervals_scaled[i][1])
          IN  /\ (/\ \E i \in inRaw : inRaw = {i} /\ Reversed(obj, i)
                  /\ inScaled = {})
                 => IsRangeError(call.res)
              /\ ((\A i \in 1..n : obj._scale.items[i].n > 0) /\ disjoint)
                 => /\ FirstZipped(obj.segment_intervals_scaled, obj._offset.items,
                                   obj._scale.items, sv)
                       = FirstZipped(obj.segment_intervals_raw, obj._offset.items,
                                     obj._scale.items, v)
                    /\ call.res.kind = "ok"
                    /\ Eq(call.res.num, IF obj.is_float THEN v ELSE round(v))

\* the round trip of a raw value that lies only in a reversed segment raised
\* the range error, on a codec that has another segment
C10_Witness ==
    /\ pc = "done"
    /\ call.op = "scaled_to_raw"
    /\ call.origin.has
    /\ call.before._scale.list
    /\ Len(call.before.segment_intervals_raw) = 2
    /\ Reversed(call.before, 1)
    /\ Holds(call.before.segment_intervals_raw[1], call.origin.raw)
    /\ ~Holds(call.before.segment_intervals_raw[2], call.origin.raw)
    /\ IsRangeError(call.res)

====
